---- MODULE Spec2Model ----
(***************************************************************************)
(* Model of the StarRating React component (src/src/StarRating.tsx).       *)
(*                                                                         *)
(* Every rating, boundary and "untilIndex" is held in half-star units,     *)
(* i.e. the model value is twice the TypeScript number: 2.5 is 5, a slot   *)
(* index k is 2*k and k - 0.5 is 2*k - 1.  Math.floor(x) is then           *)
(* (2x) \div 2 and "x - floor(x) > 0" is (2x) % 2 > 0.                     *)
(* Fill levels are the numbers of the source: 0 Empty, 1 Half, 2 Full.     *)
(***************************************************************************)
EXTENDS Integers, Sequences, FiniteSets, TLC

\* ---------------------------------------------------------------- bounds
\* Largest starsLength prop that is enumerated.
MaxStars == 3
\* Width of one star slot in pointer units (offsetX ranges over 0..SlotWidth-1).
SlotWidth == 2

\* ------------------------------------------------------------- constants
Undefined == "undefined"
\* null of a "number | null" cell; a number v in such a cell is <<v>>
Null == <<>>
\* null of the lastSide cell
NoSide == "null"

VARIABLES
  props,                       \* the props object the host passes
  phase,                       \* "unmounted" | "mounted" | "error"
  starsState,                  \* useState<number[]>
  previousStarsState,          \* useState<number[]>
  lastClickedUntilIndexState,  \* useState<number | null>
  lastSide,                    \* useState<"L" | "R" | null>
  committedRating,             \* argument of the latest handleRatingChange
  calls,                       \* onRatingChange invocations of the latest event
  lastEvent,                   \* the latest event: its type, slot and half of the slot
  lastClick                    \* the latest click handled: <<>> or <<record>>

vars == <<props, phase, starsState, previousStarsState,
          lastClickedUntilIndexState, lastSide, committedRating, calls,
          lastEvent, lastClick>>

compVars == <<starsState, previousStarsState, lastClickedUntilIndexState, lastSide>>

\* ------------------------------------------------- props and their defaults
OptBool == {"true", "false", Undefined}

\* isReadOnly is either passed as true or left out (its default is false).

\* starsLength = 5 is the default the component takes when the prop is left out.
DefaultStarsLength == 5

\* Hosts that leave starsLength out, pass half-star ratings and a callback.
DefaultLengthProps ==
  [starsLength : {DefaultStarsLength},
   initialRating : {5},
   isHalfRatingEnabled : {"true"},
   isReadOnly : {Undefined},
   isHoverEnabled : {"false", Undefined},
   onRatingChange : {TRUE}]

PropsSpace ==
  [starsLength : 0..MaxStars,
   initialRating : (-1)..(2 * MaxStars + 1),
   isHalfRatingEnabled : OptBool,
   isReadOnly : {"true", Undefined},
   isHoverEnabled : OptBool,
   onRatingChange : BOOLEAN]
  \cup DefaultLengthProps

starsLength == props.starsLength

initialRating == props.initialRating

isHalfRatingEnabled ==
  IF props.isHalfRatingEnabled = Undefined
    THEN initialRating % 2 # 0
    ELSE props.isHalfRatingEnabled = "true"

isReadOnly ==
  IF props.isReadOnly = Undefined THEN FALSE ELSE props.isReadOnly = "true"

\* Variant: the hover default is the constant true of the README's table.
isHoverEnabled_DefaultTrue ==
  IF props.isHoverEnabled = Undefined THEN TRUE
    ELSE props.isHoverEnabled = "true"

isHoverEnabled ==
  IF props.isHoverEnabled = Undefined THEN ~isReadOnly
    ELSE props.isHoverEnabled = "true"

\* Variant: the starsLength check uses < instead of <=.
ConfigError_StrictZero ==
  IF initialRating > 2 * starsLength \/ initialRating < 0
    THEN "initialRating"
  ELSE IF starsLength < 0
    THEN "starsLength"
  ELSE IF isReadOnly /\ isHoverEnabled
    THEN "isHoverEnabled"
  ELSE "none"

\* The three checks at the top of the component body, in source order.
ConfigError ==
  IF initialRating > 2 * starsLength \/ initialRating < 0
    THEN "initialRating"
  ELSE IF starsLength <= 0
    THEN "starsLength"
  ELSE IF isReadOnly /\ isHoverEnabled
    THEN "isHoverEnabled"
  ELSE "none"

\* ------------------------------------------------------- pure functions
\* arr[i] = v on a JavaScript array (0-based i); writing past the end grows it.
ArraySet(arr, i, v) ==
  IF i < Len(arr)
    THEN [arr EXCEPT ![i + 1] = v]
    ELSE arr \o [j \in 1..(i - Len(arr)) |-> Undefined] \o <<v>>

\* Variant: the fill test is off by one (index <= flooredUntilIndex).
createNewStarsState_OffByOne(untilIndex) ==
  LET flooredUntilIndex == untilIndex \div 2
      hasHalfFilledStar == untilIndex % 2 > 0
      newStarsState ==
        [index \in 1..starsLength |->
           IF index - 1 <= flooredUntilIndex THEN 2 ELSE 0]
  IN IF hasHalfFilledStar
       THEN ArraySet(newStarsState, flooredUntilIndex, 1)
       ELSE newStarsState

\* Variant: the half star is written one slot too far to the right.
createNewStarsState_HalfShifted(untilIndex) ==
  LET flooredUntilIndex == untilIndex \div 2
      hasHalfFilledStar == untilIndex % 2 > 0
      newStarsState ==
        [index \in 1..starsLength |->
           IF index - 1 < flooredUntilIndex THEN 2 ELSE 0]
  IN IF hasHalfFilledStar
       THEN ArraySet(newStarsState, flooredUntilIndex + 1, 1)
       ELSE newStarsState

createNewStarsState(untilIndex) ==
  LET flooredUntilIndex == untilIndex \div 2
      hasHalfFilledStar == untilIndex % 2 > 0
      newStarsState ==
        [index \in 1..starsLength |->
           IF index - 1 < flooredUntilIndex THEN 2 ELSE 0]
  IN IF hasHalfFilledStar
       THEN ArraySet(newStarsState, flooredUntilIndex, 1)
       ELSE newStarsState

\* Variant: the row starts empty, whatever initialRating is.
initializeStarsState_Empty == createNewStarsState(0)

initializeStarsState == createNewStarsState(initialRating)

newEmptyStarsState == [index \in 1..starsLength |-> 0]

\* Variant: the comparison with the midpoint is inverted.
isHalfClicked_Inverted(offsetX) == 2 * offsetX >= SlotWidth

\* event.nativeEvent.offsetX < rect.width / 2
isHalfClicked(offsetX) == 2 * offsetX < SlotWidth

\* Variant: the isHalfRatingEnabled guard is dropped.
getUntilIndex_IgnoresFlag(offsetX, index) ==
  LET hasHalfFilledStar == isHalfClicked(offsetX)
  IN IF hasHalfFilledStar THEN 2 * index - 1 ELSE 2 * index

getUntilIndex(offsetX, index) ==
  LET hasHalfFilledStar == isHalfRatingEnabled /\ isHalfClicked(offsetX)
  IN IF hasHalfFilledStar THEN 2 * index - 1 ELSE 2 * index

\* ------------------------------------------------------------- handlers
\* Record of a handled click: its boundary, whether it took the toggle-off
\* path, and whether the click handled before it had the same boundary.
LogClick(untilIndex, toggledOff) ==
  <<[untilIndex |-> untilIndex,
     toggledOff |-> toggledOff,
     repeat |-> lastClick # <<>> /\ lastClick[1].untilIndex = untilIndex]>>

handleRatingChange(newRating) ==
  /\ committedRating' = newRating
  /\ calls' = IF props.onRatingChange THEN <<newRating>> ELSE <<>>

\* Variant: the comparison with the last clicked index is lost, so a click
\* never takes the toggle-off path.
handleStarsStateUpdate_NoToggle(untilIndex) ==
  /\ previousStarsState' = starsState
  /\ starsState' = createNewStarsState(untilIndex)
  /\ lastClickedUntilIndexState' = <<untilIndex>>
  /\ handleRatingChange(untilIndex)
  /\ lastClick' = LogClick(untilIndex, FALSE)

\* Variant: the toggle-off path keeps the last clicked index instead of
\* clearing it, so every further click on that boundary resets again.
handleStarsStateUpdate_KeepsLast(untilIndex) ==
  IF lastClickedUntilIndexState = <<untilIndex>>
    THEN /\ starsState' = newEmptyStarsState
         /\ previousStarsState' = newEmptyStarsState
         /\ UNCHANGED lastClickedUntilIndexState
         /\ handleRatingChange(0)
         /\ lastClick' = LogClick(untilIndex, TRUE)
    ELSE /\ previousStarsState' = starsState
         /\ starsState' = createNewStarsState(untilIndex)
         /\ lastClickedUntilIndexState' = <<untilIndex>>
         /\ handleRatingChange(untilIndex)
         /\ lastClick' = LogClick(untilIndex, FALSE)

\* Variant: the commit path forgets updateLastClickedUntilIndexState.
handleStarsStateUpdate_NoRecord(untilIndex) ==
  IF lastClickedUntilIndexState = <<untilIndex>>
    THEN /\ starsState' = newEmptyStarsState
         /\ previousStarsState' = newEmptyStarsState
         /\ lastClickedUntilIndexState' = Null
         /\ handleRatingChange(0)
         /\ lastClick' = LogClick(untilIndex, TRUE)
    ELSE /\ previousStarsState' = starsState
         /\ starsState' = createNewStarsState(untilIndex)
         /\ UNCHANGED lastClickedUntilIndexState
         /\ handleRatingChange(untilIndex)
         /\ lastClick' = LogClick(untilIndex, FALSE)

\* Variant: the toggle-off path resets without calling handleRatingChange.
handleStarsStateUpdate_SilentReset(untilIndex) ==
  IF lastClickedUntilIndexState = <<untilIndex>>
    THEN /\ starsState' = newEmptyStarsState
         /\ previousStarsState' = newEmptyStarsState
         /\ lastClickedUntilIndexState' = Null
         /\ calls' = <<>>
         /\ UNCHANGED committedRating
         /\ lastClick' = LogClick(untilIndex, TRUE)
    ELSE /\ previousStarsState' = starsState
         /\ starsState' = createNewStarsState(untilIndex)
         /\ lastClickedUntilIndexState' = <<untilIndex>>
         /\ handleRatingChange(untilIndex)
         /\ lastClick' = LogClick(untilIndex, FALSE)

\* Variant: the commit path stores the new row as the previous row.
handleStarsStateUpdate_SnapshotNew(untilIndex) ==
  IF lastClickedUntilIndexState = <<untilIndex>>
    THEN /\ starsState' = newEmptyStarsState
         /\ previousStarsState' = newEmptyStarsState
         /\ lastClickedUntilIndexState' = Null
         /\ handleRatingChange(0)
         /\ lastClick' = LogClick(untilIndex, TRUE)
    ELSE /\ previousStarsState' = createNewStarsState(untilIndex)
         /\ starsState' = createNewStarsState(untilIndex)
         /\ lastClickedUntilIndexState' = <<untilIndex>>
         /\ handleRatingChange(untilIndex)
         /\ lastClick' = LogClick(untilIndex, FALSE)

\* setPreviousStarsState(starsState) comes first; on the toggle-off path
\* resetStarsState overrides it with the empty row in the same batch.
handleStarsStateUpdate(untilIndex) ==
  IF lastClickedUntilIndexState = <<untilIndex>>
    THEN /\ starsState' = newEmptyStarsState
         /\ previousStarsState' = newEmptyStarsState
         /\ lastClickedUntilIndexState' = Null
         /\ handleRatingChange(0)
         /\ lastClick' = LogClick(untilIndex, TRUE)
    ELSE /\ previousStarsState' = starsState
         /\ starsState' = createNewStarsState(untilIndex)
         /\ lastClickedUntilIndexState' = <<untilIndex>>
         /\ handleRatingChange(untilIndex)
         /\ lastClick' = LogClick(untilIndex, FALSE)

handleClick(offsetX, index) ==
  /\ handleStarsStateUpdate(getUntilIndex(offsetX, index))
  /\ UNCHANGED lastSide

\* Variant: the lastSide memory is not consulted, every move recomputes.
handleMouseMove_NoMemory(offsetX, index) ==
  LET isLeftSide == 2 * offsetX < SlotWidth
  IN /\ IF ~isHalfRatingEnabled
          THEN /\ starsState' = createNewStarsState(2 * index)
               /\ UNCHANGED lastSide
        ELSE IF isLeftSide
          THEN /\ starsState' = createNewStarsState(2 * index - 1)
               /\ lastSide' = "L"
        ELSE /\ starsState' = createNewStarsState(2 * index)
             /\ lastSide' = "R"
     /\ calls' = <<>>
     /\ UNCHANGED <<previousStarsState, lastClickedUntilIndexState,
                    committedRating, lastClick>>

\* Variant: the early return for disabled half-steps is missing.
handleMouseMove_NoEarlyReturn(offsetX, index) ==
  LET isLeftSide == 2 * offsetX < SlotWidth
  IN /\ IF isLeftSide /\ lastSide # "L"
          THEN /\ starsState' = createNewStarsState(2 * index - 1)
               /\ lastSide' = "L"
        ELSE IF ~isLeftSide /\ lastSide # "R"
          THEN /\ starsState' = createNewStarsState(2 * index)
               /\ lastSide' = "R"
        ELSE UNCHANGED <<starsState, lastSide>>
     /\ calls' = <<>>
     /\ UNCHANGED <<previousStarsState, lastClickedUntilIndexState,
                    committedRating, lastClick>>

\* Variant: a move also stores the row it replaces as the previous row.
handleMouseMove_SavesPreview(offsetX, index) ==
  LET isLeftSide == 2 * offsetX < SlotWidth
  IN /\ IF ~isHalfRatingEnabled
          THEN /\ starsState' = createNewStarsState(2 * index)
               /\ UNCHANGED lastSide
        ELSE IF isLeftSide /\ lastSide # "L"
          THEN /\ starsState' = createNewStarsState(2 * index - 1)
               /\ lastSide' = "L"
        ELSE IF ~isLeftSide /\ lastSide # "R"
          THEN /\ starsState' = createNewStarsState(2 * index)
               /\ lastSide' = "R"
        ELSE UNCHANGED <<starsState, lastSide>>
     /\ previousStarsState' = starsState
     /\ calls' = <<>>
     /\ UNCHANGED <<lastClickedUntilIndexState, committedRating, lastClick>>

\* clientX < rect.left + rect.width / 2, with clientX = rect.left + offsetX
handleMouseMove(offsetX, index) ==
  LET isLeftSide == 2 * offsetX < SlotWidth
  IN /\ IF ~isHalfRatingEnabled
          THEN /\ starsState' = createNewStarsState(2 * index)
               /\ UNCHANGED lastSide
        ELSE IF isLeftSide /\ lastSide # "L"
          THEN /\ starsState' = createNewStarsState(2 * index - 1)
               /\ lastSide' = "L"
        ELSE IF ~isLeftSide /\ lastSide # "R"
          THEN /\ starsState' = createNewStarsState(2 * index)
               /\ lastSide' = "R"
        ELSE UNCHANGED <<starsState, lastSide>>
     /\ calls' = <<>>
     /\ UNCHANGED <<previousStarsState, lastClickedUntilIndexState,
                    committedRating, lastClick>>

\* Variant: leaving also clears the last clicked index.
handleMouseLeave_ClearsLast ==
  /\ starsState' = previousStarsState
  /\ lastSide' = NoSide
  /\ lastClickedUntilIndexState' = Null
  /\ calls' = <<>>
  /\ UNCHANGED <<previousStarsState, committedRating, lastClick>>

handleMouseLeave ==
  /\ starsState' = previousStarsState
  /\ lastSide' = NoSide
  /\ calls' = <<>>
  /\ UNCHANGED <<previousStarsState, lastClickedUntilIndexState,
                 committedRating, lastClick>>

\* ------------------------------------------------- bindings made by drawStars
\* Variant: the click handler is bound whatever isReadOnly says.
onClick_Always == TRUE

onClick == ~isReadOnly

onMouseMove == isHoverEnabled

\* Variant: the leave handler is bound whatever isHoverEnabled says.
onMouseLeave_Always == TRUE

onMouseLeave == isHoverEnabled

\* ---------------------------------------------------------------- actions
\* The pointer is in the left half of the slot it is over.
InLeftHalf(offsetX) == 2 * offsetX < SlotWidth

Init ==
  /\ props \in PropsSpace
  /\ phase = "unmounted"
  /\ starsState = <<>>
  /\ previousStarsState = <<>>
  /\ lastClickedUntilIndexState = Null
  /\ lastSide = NoSide
  /\ committedRating = 0
  /\ calls = <<>>
  /\ lastEvent = [type |-> "none", index |-> 0, left |-> FALSE]
  /\ lastClick = <<>>

\* First render of the component: the checks, then the useState initial values.
StarRating ==
  /\ phase = "unmounted"
  /\ IF ConfigError # "none"
       THEN /\ phase' = "error"
            /\ UNCHANGED <<compVars, committedRating>>
       ELSE /\ phase' = "mounted"
            /\ starsState' = initializeStarsState
            /\ previousStarsState' = initializeStarsState
            /\ lastClickedUntilIndexState' = <<initialRating>>
            /\ lastSide' = NoSide
            /\ committedRating' = initialRating
  /\ lastEvent' = [type |-> "mount", index |-> 0, left |-> FALSE]
  /\ UNCHANGED <<props, calls, lastClick>>

\* An event with no handler bound to it changes nothing in the component.
Unhandled ==
  /\ calls' = <<>>
  /\ UNCHANGED <<compVars, committedRating, lastClick>>

Click(index, offsetX) ==
  /\ phase = "mounted"
  /\ lastEvent' = [type |-> "click", index |-> index, left |-> InLeftHalf(offsetX)]
  /\ IF onClick THEN handleClick(offsetX, index) ELSE Unhandled
  /\ UNCHANGED <<props, phase>>

MouseMove(index, offsetX) ==
  /\ phase = "mounted"
  /\ lastEvent' = [type |-> "move", index |-> index, left |-> InLeftHalf(offsetX)]
  /\ IF onMouseMove THEN handleMouseMove(offsetX, index) ELSE Unhandled
  /\ UNCHANGED <<props, phase>>

MouseLeave ==
  /\ phase = "mounted"
  /\ lastEvent' = [type |-> "leave", index |-> 0, left |-> FALSE]
  /\ IF onMouseLeave THEN handleMouseLeave ELSE Unhandled
  /\ UNCHANGED <<props, phase>>

Next ==
  \/ StarRating
  \/ \E index \in 1..starsLength, offsetX \in 0..(SlotWidth - 1) :
       Click(index, offsetX)
  \/ \E index \in 1..starsLength, offsetX \in 0..(SlotWidth - 1) :
       MouseMove(index, offsetX)
  \/ MouseLeave

Spec == Init /\ [][Next]_vars

\* ================================================================ claims
\* Vocabulary of the specification, in half-star units.

Mounted == phase = "mounted"

\* deriveFillState(boundary, starCount) as the specification defines it.
deriveFillState(boundary) ==
  [i \in 1..starsLength |->
     IF i - 1 < boundary \div 2 THEN 2
     ELSE IF i - 1 = boundary \div 2 /\ boundary % 2 > 0 THEN 1
     ELSE 0]

AllEmpty(row) == Len(row) = starsLength /\ \A i \in 1..Len(row) : row[i] = 0

Count(row, level) == Cardinality({i \in 1..Len(row) : row[i] = level})

\* boundaryFromPointer for the slot and half of the slot an event names.
Boundary(e) ==
  IF isHalfRatingEnabled /\ e.left THEN 2 * e.index - 1 ELSE 2 * e.index

\* What the host is told, when it has passed a callback.
Notified(value) ==
  IF props.onRatingChange THEN calls = <<value>> ELSE calls = <<>>

\* The same, of the invocations made by the step being taken.
NotifiedNext(value) ==
  IF props.onRatingChange THEN calls' = <<value>> ELSE calls' = <<>>

\* The step delivers a click to a slot whose click handler is bound.
ClickStep == Mounted /\ onClick /\ lastEvent'.type = "click"

\* ---------------------------------------------------------------- C1
\* C1: for every starCount n >= 1 and boundary b in {0, 0.5, ..., n},
\* createNewStarsState(b) has length n, holds floor(b) Full entries first,
\* then one Half entry iff b is non-integer, then only Empty entries;
\* b = 0 gives all Empty and b = n gives all Full.
C1_DeriveShape ==
  Mounted =>
    \A b \in 0..(2 * starsLength) :
      LET row == createNewStarsState(b)
      IN /\ Len(row) = starsLength
         /\ \A i \in 1..Len(row) : row[i] \in {0, 1, 2}
         /\ \A i, j \in 1..Len(row) : i < j => row[i] >= row[j]
         /\ Count(row, 2) = b \div 2
         /\ Count(row, 1) = (IF b % 2 = 1 THEN 1 ELSE 0)
         /\ (b = 0 => Count(row, 0) = starsLength)
         /\ (b = 2 * starsLength => Count(row, 2) = starsLength)

\* A row with a Full, a Half and an Empty star is on display after a click.
C1_Witness ==
  /\ Mounted
  /\ lastEvent.type = "click"
  /\ starsState = createNewStarsState(3)
  /\ Count(starsState, 2) = 1 /\ Count(starsState, 1) = 1
  /\ Count(starsState, 0) >= 1

\* ---------------------------------------------------------------- C2
\* C2: with hover enabled and not read-only, right after an onPointerLeave
\* the displayed row is deriveFillState(committedRating), the committed
\* rating being the value most recently notified (initialRating before any
\* click).
C2_LeaveShowsCommitted ==
  (Mounted /\ isHoverEnabled /\ ~isReadOnly /\ lastEvent.type = "leave")
    => starsState = deriveFillState(committedRating)

\* ---------------------------------------------------------------- C3
\* C3 as stated: from every reachable state, the second of two successive
\* clicks at the same boundary leaves the row all-Empty and notifies 0.
C3_SecondClickResets ==
  [][(/\ ClickStep
      /\ lastClick # <<>>
      /\ lastClick[1].untilIndex = Boundary(lastEvent'))
       => (/\ AllEmpty(starsState')
           /\ committedRating' = 0
           /\ NotifiedNext(0))]_vars

\* C3 amended: the second of two successive clicks at the same boundary b
\* leaves the row all-Empty and notifies 0, provided the first of the two
\* was not itself a toggle-off (lastCommittedBoundary differed from b before
\* the first click).
C3_SecondClickResetsAfterCommit ==
  [][(/\ ClickStep
      /\ lastClick # <<>>
      /\ lastClick[1].untilIndex = Boundary(lastEvent')
      /\ ~lastClick[1].toggledOff)
       => (/\ AllEmpty(starsState')
           /\ committedRating' = 0
           /\ NotifiedNext(0))]_vars

\* A click that repeats the boundary of the click before it has just reset
\* the row (the click before it therefore committed that boundary).
C3_Witness ==
  /\ Mounted
  /\ lastEvent.type = "click"
  /\ lastClick # <<>>
  /\ lastClick[1].repeat
  /\ lastClick[1].toggledOff
  /\ AllEmpty(starsState)
  /\ Notified(0)
  /\ props.onRatingChange

\* ---------------------------------------------------------------- C4
\* C4: a click whose boundary equals lastCommittedBoundary sets the row to
\* all-Empty, the committed rating to 0 and lastCommittedBoundary to none,
\* and notifies the host with 0.
C4_ToggleOff ==
  [][(/\ ClickStep
      /\ lastClickedUntilIndexState = <<Boundary(lastEvent')>>)
       => (/\ AllEmpty(starsState')
           /\ committedRating' = 0
           /\ lastClickedUntilIndexState' = Null
           /\ NotifiedNext(0))]_vars

\* The first click lands on the boundary of initialRating and clears it.
C4_Witness ==
  /\ Mounted
  /\ lastEvent.type = "click"
  /\ lastClick # <<>>
  /\ ~lastClick[1].repeat
  /\ lastClick[1].toggledOff
  /\ lastClick[1].untilIndex = initialRating
  /\ lastClickedUntilIndexState = Null
  /\ calls = <<0>>

\* ---------------------------------------------------------------- C5
\* C5: a click whose boundary b differs from lastCommittedBoundary (none
\* included) sets the row to deriveFillState(b), the committed rating and
\* lastCommittedBoundary to b, and notifies b, whatever was committed or
\* previewed before.
C5_Commit ==
  [][(/\ ClickStep
      /\ lastClickedUntilIndexState # <<Boundary(lastEvent')>>)
       => (/\ starsState' = deriveFillState(Boundary(lastEvent'))
           /\ committedRating' = Boundary(lastEvent')
           /\ lastClickedUntilIndexState' = <<Boundary(lastEvent')>>
           /\ NotifiedNext(Boundary(lastEvent')))]_vars

\* A commit that replaced an earlier, larger commit while a different
\* preview was the baseline.
C5_Witness ==
  /\ Mounted
  /\ lastEvent.type = "click"
  /\ lastClick # <<>>
  /\ ~lastClick[1].toggledOff
  /\ lastClickedUntilIndexState = <<2>>
  /\ starsState = deriveFillState(2)
  /\ previousStarsState # starsState
  /\ previousStarsState # deriveFillState(initialRating)
  /\ calls = <<2>>

\* ---------------------------------------------------------------- C6
\* C6: the boundary a click on slot k uses is k when half-steps are
\* disabled, whatever the side; with half-steps enabled it is k - 0.5 for
\* the left half and k for the right half.
C6_ClickBoundary ==
  (Mounted /\ onClick /\ lastEvent.type = "click") =>
    /\ lastClick # <<>>
    /\ lastClick[1].untilIndex =
         (IF ~isHalfRatingEnabled THEN 2 * lastEvent.index
          ELSE IF lastEvent.left THEN 2 * lastEvent.index - 1
          ELSE 2 * lastEvent.index)

\* A click in the left half of slot 2 with half-steps disabled used boundary 2.
C6_Witness ==
  /\ Mounted
  /\ onClick
  /\ ~isHalfRatingEnabled
  /\ lastEvent = [type |-> "click", index |-> 2, left |-> TRUE]
  /\ lastClick # <<>>
  /\ lastClick[1].untilIndex = 4

\* ---------------------------------------------------------------- C7
\* C7: onRatingChange is invoked exactly once by every click (with 0 on
\* toggle-off, with the boundary otherwise) and never by a pointer move, a
\* pointer leave or the construction.
C7_NotifyOncePerClick ==
  /\ (lastEvent.type \in {"none", "mount", "move", "leave"} => calls = <<>>)
  /\ (Mounted /\ onClick /\ props.onRatingChange /\ lastEvent.type = "click")
       => /\ Len(calls) = 1
          /\ lastClick # <<>>
          /\ calls[1] = (IF lastClick[1].toggledOff THEN 0
                         ELSE Boundary(lastEvent))

\* A toggle-off click, made after a hover preview, has notified 0 once.
C7_Witness ==
  /\ Mounted
  /\ props.onRatingChange
  /\ lastEvent.type = "click"
  /\ lastSide # NoSide
  /\ lastClick # <<>>
  /\ lastClick[1].toggledOff
  /\ calls = <<0>>

\* ---------------------------------------------------------------- C8
\* C8: construction is rejected, creating no state, exactly when
\* initialRating < 0, initialRating > starCount, starCount <= 0, or readOnly
\* and hover preview are both true; nothing is clamped or defaulted into an
\* accepted configuration, and no click, move or leave raises an error.
C8_ConfigRejected ==
  phase # "unmounted" =>
    /\ phase = "error" <=>
         \/ initialRating < 0
         \/ initialRating > 2 * starsLength
         \/ starsLength <= 0
         \/ (isReadOnly /\ isHoverEnabled)
    /\ phase = "error" =>
         /\ lastEvent.type = "mount"
         /\ starsState = <<>>
         /\ previousStarsState = <<>>
         /\ lastClickedUntilIndexState = Null
    /\ phase = "mounted" =>
         /\ Len(starsState) = starsLength
         /\ lastEvent.type = "mount" =>
              lastClickedUntilIndexState = <<initialRating>>

\* starsLength = 0 with initialRating = 0 is rejected by the starsLength
\* check alone.
C8_Witness ==
  /\ phase = "error"
  /\ starsLength = 0
  /\ initialRating = 0
  /\ ~(isReadOnly /\ isHoverEnabled)

\* ---------------------------------------------------------------- C9
\* C9: when readOnly is true no click, move or leave changes any state: the
\* row stays deriveFillState(initialRating), the committed rating stays
\* initialRating and onRatingChange is never invoked.
C9_ReadOnlyFrozen ==
  (Mounted /\ isReadOnly) =>
    /\ starsState = deriveFillState(initialRating)
    /\ previousStarsState = deriveFillState(initialRating)
    /\ lastClickedUntilIndexState = <<initialRating>>
    /\ lastSide = NoSide
    /\ committedRating = initialRating
    /\ calls = <<>>
    /\ lastClick = <<>>

\* A read-only component showing two stars has just been clicked on slot 1.
C9_Witness ==
  /\ Mounted
  /\ isReadOnly
  /\ initialRating = 4
  /\ lastEvent.type = "click"
  /\ lastEvent.index = 1

\* --------------------------------------------------------------- C10
\* C10: pointer moves and pointer leaves leave lastCommittedBoundary and the
\* committed rating unchanged; only click events change them.
C10_HoverKeepsCommit ==
  [][(Mounted /\ lastEvent'.type # "click")
       => UNCHANGED <<lastClickedUntilIndexState, committedRating>>]_vars

\* The pointer has left after a hover that followed a commit of 1.5, and the
\* commit is still recorded.
C10_Witness ==
  /\ Mounted
  /\ isHoverEnabled
  /\ lastEvent.type = "leave"
  /\ lastClick # <<>>
  /\ lastClickedUntilIndexState = <<3>>
  /\ committedRating = 3
  /\ starsState # deriveFillState(3)

\* --------------------------------------------------------------- C11
\* C11: when isHalfRatingEnabled is false only integer ratings occur: in
\* every reachable state of an accepted configuration the committed rating
\* is an integer and the displayed row holds no Half entry.
C11_IntegerOnly ==
  (Mounted /\ ~isHalfRatingEnabled) =>
    /\ committedRating % 2 = 0
    /\ Count(starsState, 1) = 0

\* --------------------------------------------------------------- C12
\* C12: when isHalfRatingEnabled is not supplied it is false for every
\* initialRating: a click on slot k uses boundary k whatever the side, never
\* k - 0.5.
C12_HalfDefaultsFalse ==
  (Mounted /\ props.isHalfRatingEnabled = Undefined) =>
    /\ ~isHalfRatingEnabled
    /\ (onClick /\ lastEvent.type = "click") =>
         (lastClick # <<>> /\ lastClick[1].untilIndex = 2 * lastEvent.index)

\* --------------------------------------------------------------- C13
\* C13: right after construction with a valid configuration the row is
\* deriveFillState(initialRating), the baseline snapshot is that same row,
\* lastCommittedBoundary is initialRating and lastSide is none.
C13_InitialState ==
  (Mounted /\ lastEvent.type = "mount") =>
    /\ starsState = deriveFillState(initialRating)
    /\ previousStarsState = starsState
    /\ lastClickedUntilIndexState = <<initialRating>>
    /\ lastSide = NoSide

\* A three-star component has just been constructed with initialRating 1.5.
C13_Witness ==
  /\ Mounted
  /\ lastEvent.type = "mount"
  /\ starsLength = 3
  /\ initialRating = 3
  /\ starsState = <<2, 1, 0>>

\* --------------------------------------------------------------- C14
\* C14: with starCount 5, half-steps enabled and initialRating 2.5 the
\* initial row is [Full, Full, Half, Empty, Empty]; a click on the right
\* half of slot 4 then gives [Full, Full, Full, Full, Empty] and notifies 4;
\* a click on the right half of slot 4 immediately after that gives five
\* Empty entries and notifies 0.
C14_Scenario ==
  starsLength = 5 /\ initialRating = 5 /\ isHalfRatingEnabled
    /\ ~isReadOnly /\ props.onRatingChange

C14_ClickSlot4Right == [type |-> "click", index |-> 4, left |-> FALSE]

C14_EndToEnd ==
  [][C14_Scenario =>
       /\ lastEvent'.type = "mount" => starsState' = <<2, 2, 1, 0, 0>>
       /\ (lastEvent.type = "mount" /\ lastEvent' = C14_ClickSlot4Right)
            => (starsState' = <<2, 2, 2, 2, 0>> /\ calls' = <<8>>)
       /\ (/\ lastEvent = C14_ClickSlot4Right
           /\ starsState = <<2, 2, 2, 2, 0>>
           /\ previousStarsState = <<2, 2, 1, 0, 0>>
           /\ lastClickedUntilIndexState = <<8>>
           /\ lastEvent' = C14_ClickSlot4Right)
            => (starsState' = <<0, 0, 0, 0, 0>> /\ calls' = <<0>>)]_vars

\* The second click of the scenario has been handled.
C14_Witness ==
  /\ Mounted
  /\ C14_Scenario
  /\ lastEvent = C14_ClickSlot4Right
  /\ lastClick = <<[untilIndex |-> 8, toggledOff |-> TRUE, repeat |-> TRUE]>>
  /\ starsState = <<0, 0, 0, 0, 0>>
  /\ lastSide = NoSide
  /\ calls = <<0>>

C16_HoverMatchesClick ==
  (Mounted /\ isHoverEnabled /\ lastEvent.type = "move")
    => starsState = deriveFillState(Boundary(lastEvent))

\* --------------------------------------------------------------- C17
\* C17: with half-steps and hover enabled, a move on slot k in the left half
\* with lastSide # Left shows deriveFillState(k - 0.5) and sets lastSide to
\* Left; in the right half with lastSide # Right it shows deriveFillState(k)
\* and sets lastSide to Right; in every other case, whatever the slot, it
\* changes no state.
C17_SideMemory ==
  [][(Mounted /\ isHoverEnabled /\ isHalfRatingEnabled
        /\ lastEvent'.type = "move")
       => /\ UNCHANGED <<previousStarsState, lastClickedUntilIndexState,
                         committedRating>>
          /\ IF lastEvent'.left /\ lastSide # "L"
               THEN /\ starsState' = deriveFillState(2 * lastEvent'.index - 1)
                    /\ lastSide' = "L"
             ELSE IF ~lastEvent'.left /\ lastSide # "R"
               THEN /\ starsState' = deriveFillState(2 * lastEvent'.index)
                    /\ lastSide' = "R"
             ELSE UNCHANGED <<starsState, lastSide>>]_vars

\* A move to the left half of slot 3 was suppressed: the row still previews
\* 0.5 from an earlier move on the left half of slot 1.
C17_Witness ==
  /\ Mounted
  /\ isHoverEnabled
  /\ isHalfRatingEnabled
  /\ lastEvent = [type |-> "move", index |-> 3, left |-> TRUE]
  /\ lastSide = "L"
  /\ starsState = deriveFillState(1)

\* --------------------------------------------------------------- C18
\* C18: with half-steps disabled and hover enabled every move on slot k
\* shows deriveFillState(k), with no lastSide check, and lastSide stays none
\* in every reachable state.
C18_WholeStarHover ==
  (Mounted /\ ~isHalfRatingEnabled) =>
    /\ lastSide = NoSide
    /\ (isHoverEnabled /\ lastEvent.type = "move")
         => starsState = deriveFillState(2 * lastEvent.index)

\* After a commit, a move over the left half of slot 2 previews two stars.
C18_Witness ==
  /\ Mounted
  /\ ~isHalfRatingEnabled
  /\ isHoverEnabled
  /\ lastClick # <<>>
  /\ lastEvent = [type |-> "move", index |-> 2, left |-> TRUE]
  /\ starsState = deriveFillState(4)
  /\ committedRating # 4

\* --------------------------------------------------------------- C19
\* C19: after a committing click the baseline snapshot is the row that was
\* displayed immediately before that click (possibly a preview); after a
\* toggle-off click the baseline snapshot is all-Empty.
C19_SnapshotAtClick ==
  [][ClickStep =>
       IF lastClickedUntilIndexState = <<Boundary(lastEvent')>>
         THEN AllEmpty(previousStarsState')
         ELSE previousStarsState' = starsState]_vars

\* A commit made over a preview of 0.5 has kept that preview as the baseline.
C19_Witness ==
  /\ Mounted
  /\ lastEvent.type = "click"
  /\ lastClick # <<>>
  /\ ~lastClick[1].toggledOff
  /\ lastSide # NoSide
  /\ previousStarsState = deriveFillState(1)
  /\ previousStarsState # starsState
  /\ initialRating # 1

\* --------------------------------------------------------------- C20
\* C20: pointer moves never modify the baseline snapshot, and a pointer
\* leave sets the row to the baseline snapshot and lastSide to none, so
\* after any number of moves with no click between them the row after the
\* leave is the snapshot as it stood before the first of those moves.
C20_LeaveRestoresSnapshot ==
  [][(Mounted /\ isHoverEnabled) =>
       /\ lastEvent'.type = "move" => UNCHANGED previousStarsState
       /\ lastEvent'.type = "leave" =>
            /\ starsState' = previousStarsState
            /\ lastSide' = NoSide
            /\ UNCHANGED previousStarsState]_vars

\* The pointer has left a component that was never clicked: the row is the
\* snapshot taken at construction and the side memory is cleared.
C20_Witness ==
  /\ Mounted
  /\ isHoverEnabled
  /\ isHalfRatingEnabled
  /\ lastEvent.type = "leave"
  /\ lastClick = <<>>
  /\ initialRating = 3
  /\ starsState = deriveFillState(3)
  /\ starsState = previousStarsState
  /\ lastSide = NoSide

\* --------------------------------------------------------------- C21
\* C21: with hover preview disabled and the component not read-only, pointer
\* moves and pointer leaves change nothing, and in every reachable state the
\* displayed row is deriveFillState(committedRating), the committed rating
\* being initialRating before any click and the last notified value after.
C21_NoHoverShowsCommitted ==
  [][(phase' = "mounted" /\ ~isHoverEnabled /\ ~isReadOnly) =>
       /\ starsState' = deriveFillState(committedRating')
       /\ lastClick' = <<>> => committedRating' = initialRating
       /\ lastEvent'.type \in {"move", "leave"} =>
            (UNCHANGED <<compVars, committedRating>> /\ calls' = <<>>)]_vars

\* With hover disabled, the pointer has left after a commit of 1.5 and the
\* row still shows 1.5.
C21_Witness ==
  /\ Mounted
  /\ ~isHoverEnabled
  /\ ~isReadOnly
  /\ lastEvent.type = "leave"
  /\ lastClick # <<>>
  /\ committedRating = 3
  /\ initialRating # 3
  /\ starsState = deriveFillState(3)

\* --------------------------------------------------------------- C22
\* C22: in every reachable state the displayed row and the baseline snapshot
\* both have length starCount and are well-formed: zero or more Full, then
\* at most one Half, then only Empty.
WellFormedRow(row) ==
  /\ Len(row) = starsLength
  /\ \A i \in 1..Len(row) : row[i] \in {0, 1, 2}
  /\ \A i, j \in 1..Len(row) : i < j => row[i] >= row[j]
  /\ Count(row, 1) <= 1

C22_RowsWellFormed ==
  Mounted => (WellFormedRow(starsState) /\ WellFormedRow(previousStarsState))

\* A click over a preview: the row and the baseline both hold a Half star
\* and differ.
C22_Witness ==
  /\ Mounted
  /\ lastEvent.type = "click"
  /\ starsState = <<1, 0, 0>>
  /\ previousStarsState = <<2, 1, 0>>

\* --------------------------------------------------------------- C23
\* C23: every notification carries a value different from the committed
\* rating in force just before that click (initialRating for the first
\* click), so no two consecutive notifications carry the same value and 0 is
\* never notified twice in a row.
C23_NotificationChangesRating ==
  [][ClickStep =>
       /\ committedRating' # committedRating
       /\ props.onRatingChange =>
            (calls' = <<committedRating'>> /\ calls'[1] # committedRating)]_vars

\* A click has committed again the boundary that the click before it had
\* toggled off: 0 was followed by a non-zero notification.
C23_Witness ==
  /\ Mounted
  /\ props.onRatingChange
  /\ lastEvent.type = "click"
  /\ lastClick # <<>>
  /\ lastClick[1].repeat
  /\ ~lastClick[1].toggledOff
  /\ calls = <<lastClick[1].untilIndex>>
  /\ calls # <<0>>

\* --------------------------------------------------------------- C24
\* C24: every notified value lies in [0, starCount] and is 0, or k or
\* k - 0.5 for a slot k in 1..starCount (k only, with half-steps disabled);
\* and in every reachable state lastCommittedBoundary is none exactly when
\* the last click was a toggle-off, and otherwise equals the committed
\* rating.
C24_NotifiedValues ==
  Mounted =>
    /\ \A i \in 1..Len(calls) :
         /\ 0 <= calls[i] /\ calls[i] <= 2 * starsLength
         /\ \/ calls[i] = 0
            \/ \E k \in 1..starsLength :
                 \/ calls[i] = 2 * k
                 \/ (isHalfRatingEnabled /\ calls[i] = 2 * k - 1)
    /\ lastClickedUntilIndexState = Null
         <=> (lastClick # <<>> /\ lastClick[1].toggledOff)
    /\ lastClickedUntilIndexState # Null
         => lastClickedUntilIndexState = <<committedRating>>

\* The left half of the last of three slots has been committed: 2.5 was
\* notified and is the last committed boundary.
C24_Witness ==
  /\ Mounted
  /\ isHalfRatingEnabled
  /\ starsLength = 3
  /\ lastEvent.type = "click"
  /\ calls = <<5>>
  /\ lastClickedUntilIndexState = <<5>>
  /\ committedRating = 5

====
